---- MODULE Spec2Model ----
(***************************************************************************)
(* Model of the speaking-stone firmware skeleton:                          *)
(*   main.c          app_main                                              *)
(*   wifi.c          wifi_init_sta, wifi_event_handler                     *)
(*   audio_stream.c  audio_stream_task                                     *)
(* Platform calls (ESP-IDF, FreeRTOS) are environment steps whose results  *)
(* are chosen nondeterministically from small sets.                        *)
(***************************************************************************)
EXTENDS Integers, Sequences, FiniteSets

VARIABLES
    mainPc,         \* position of app_main
    nvsCalls,       \* NVS calls made by app_main, in order, with results
    mainLog,        \* log lines of main.c
    wifiPc,         \* position of wifi_init_sta
    wifiRet,        \* status returned by wifi_init_sta ("none" until it returns)
    calls,          \* sub-steps invoked by wifi_init_sta, in order, with results
    handlers,       \* <<event_base, event_id>> registrations of wifi_event_handler
    wifi_config,    \* local wifi_config of wifi_init_sta (<<>> before line 62)
    set_config_arg, \* configuration passed to esp_wifi_set_config (<<>> if not called)
    radioMode,      \* mode accepted by the radio
    radioStarted,   \* esp_wifi_start succeeded
    staStartPending,\* WIFI_EVENT_STA_START posted, not yet dispatched
    conn,           \* platform connection lifecycle
    connectRet,     \* status of the last esp_wifi_connect call, as the platform
                    \* returned it; the handler drops it ("none" before any call)
    nEvents,        \* events dispatched by the event loop
    nStaStart,      \* station-start events dispatched to the handler
    nDisc,          \* station-disconnected events dispatched to the handler
    nGotIp,         \* IP-acquired events dispatched to the handler
    lastEvent,      \* last event dispatched: <<base, id, addr>> (<<>> if none)
    trace,          \* effects of wifi_event_handler, in order
    wifiLog,        \* log lines of wifi_init_sta
    build,          \* build-time configuration (sdkconfig)
    taskPc,         \* position of audio_stream_task ("none" if not created)
    streamLog       \* most recent effects of audio_stream_task

vars == <<mainPc, nvsCalls, mainLog, wifiPc, wifiRet, calls, handlers,
          wifi_config, set_config_arg, radioMode, radioStarted,
          staStartPending, conn, connectRet, nEvents, nStaStart, nDisc, nGotIp,
          lastEvent, trace, wifiLog, build, taskPc, streamLog>>

mainVars  == <<mainPc, nvsCalls, mainLog>>
initVars  == <<wifiPc, wifiRet, calls, handlers, wifi_config, set_config_arg,
               radioMode, radioStarted, staStartPending, wifiLog>>
eventVars == <<conn, connectRet, nEvents, nStaStart, nDisc, nGotIp, lastEvent, trace>>
taskVars  == <<taskPc, streamLog>>

(***************************************************************************)
(* Bounds                                                                  *)
(***************************************************************************)
MaxEvents == 4
StreamLogWindow == 4

(***************************************************************************)
(* Status codes and platform results                                       *)
(***************************************************************************)
ESP_OK == "ESP_OK"
ESP_FAIL == "ESP_FAIL"
ESP_ERR_INVALID_STATE == "ESP_ERR_INVALID_STATE"
ESP_ERR_NO_MEM == "ESP_ERR_NO_MEM"
ESP_ERR_NVS_NO_FREE_PAGES == "ESP_ERR_NVS_NO_FREE_PAGES"
ESP_ERR_NVS_NEW_VERSION_FOUND == "ESP_ERR_NVS_NEW_VERSION_FOUND"

StepStatuses == {ESP_OK, ESP_ERR_INVALID_STATE, ESP_ERR_NO_MEM}
NvsStatuses == {ESP_OK, ESP_ERR_NVS_NO_FREE_PAGES, ESP_ERR_NVS_NEW_VERSION_FOUND,
                ESP_ERR_NO_MEM}
NetifResults == {"netif", "NULL"}
ConnectResults == {ESP_OK, "ESP_ERR_WIFI_CONN"}
TaskCreateResults == {"pdPASS", "errCOULD_NOT_ALLOCATE_REQUIRED_MEMORY"}

WIFI_EVENT == "WIFI_EVENT"
IP_EVENT == "IP_EVENT"
ESP_EVENT_ANY_ID == "ESP_EVENT_ANY_ID"
WIFI_EVENT_STA_START == "WIFI_EVENT_STA_START"
WIFI_EVENT_STA_CONNECTED == "WIFI_EVENT_STA_CONNECTED"
WIFI_EVENT_STA_DISCONNECTED == "WIFI_EVENT_STA_DISCONNECTED"
IP_EVENT_STA_GOT_IP == "IP_EVENT_STA_GOT_IP"
OtherWifiEvents == {"WIFI_EVENT_SCAN_DONE", "WIFI_EVENT_STA_BEACON_TIMEOUT"}

MSG_TYPE_AUDIO_CHUNK == "MSG_TYPE_AUDIO_CHUNK"
MSG_TYPE_TTS_CHUNK == "MSG_TYPE_TTS_CHUNK"

(***************************************************************************)
(* C strings and strlcpy (wifi.c:73-74)                                    *)
(* A C string is a sequence of non-zero character codes; a field is a      *)
(* sequence of bytes of the field's size.                                  *)
(***************************************************************************)
SsidFieldLen == 32
PasswordFieldLen == 64

Min(a, b) == IF a < b THEN a ELSE b

Zeros(n) == [i \in 1..n |-> 0]

\* n characters starting at code c, cycling through 26 letters
Str(n, c) == [i \in 1..n |-> c + ((i - 1) % 26)]

\* variant: strncpy, which fills the field and leaves it unterminated
strlcpy_AsStrncpy(dst, src, size) ==
    [i \in 1..Len(dst) |->
        IF i <= Min(Len(src), size) THEN src[i]
        ELSE IF i <= size THEN 0
        ELSE dst[i]]

\* strlcpy(dst, src, size): copy at most size-1 characters and terminate
strlcpy(dst, src, size) ==
    IF size = 0 THEN dst
    ELSE LET n == Min(Len(src), size - 1)
         IN  [i \in 1..Len(dst) |->
                 IF i <= n THEN src[i]
                 ELSE IF i = n + 1 THEN 0
                 ELSE dst[i]]

\* the C string held by a field: the bytes before the first NUL
RECURSIVE CStr(_)
CStr(buf) ==
    IF buf = <<>> \/ Head(buf) = 0 THEN <<>>
    ELSE <<Head(buf)>> \o CStr(Tail(buf))

\* CONFIG_SPEAKING_STONE_WIFI_SSID / CONFIG_SPEAKING_STONE_WIFI_PASSWORD
BuildConfigs ==
    { [ssid |-> Str(7, 97),                 password |-> Str(10, 65)],
      [ssid |-> Str(SsidFieldLen - 1, 97),  password |-> Str(PasswordFieldLen - 1, 65)],
      [ssid |-> Str(SsidFieldLen, 97),      password |-> Str(PasswordFieldLen, 65)],
      [ssid |-> Str(SsidFieldLen + 5, 97),  password |-> Str(8, 65)],
      [ssid |-> Str(0, 97),                 password |-> Str(PasswordFieldLen + 3, 65)] }

\* wifi_config as initialised at wifi.c:62-70 and filled at wifi.c:73-74
StaConfig(ssidSrc, passwordSrc) ==
    [ssid |-> strlcpy(Zeros(SsidFieldLen), ssidSrc, SsidFieldLen),
     password |-> strlcpy(Zeros(PasswordFieldLen), passwordSrc, PasswordFieldLen),
     authmode |-> "WIFI_AUTH_WPA2_PSK",
     pmf_capable |-> TRUE,
     pmf_required |-> FALSE]

(***************************************************************************)
(* IPv4 addresses and esp_ip4addr_ntoa (wifi.c:22-25)                      *)
(* An address is the four bytes of esp_ip4_addr_t.addr as they lie in       *)
(* memory (network byte order: the first octet first); the routine reads   *)
(* them through a byte pointer.                                            *)
(***************************************************************************)
IpStrBufLen == 16

Ip(a, b, c, d) == <<a, b, c, d>>

IpAddrs == { Ip(0, 0, 0, 0), Ip(255, 255, 255, 255),
             Ip(192, 168, 1, 10), Ip(10, 0, 200, 107) }

\* variant: the bytes are taken most significant first, as for a host-order word
AddrByte_HostOrder(addr, n) == addr[4 - n]

\* byte n (0..3) of the address in memory order: ap[n]
AddrByte(addr, n) == addr[n + 1]

DigitChar(d) == <<"0", "1", "2", "3", "4", "5", "6", "7", "8", "9">>[d + 1]

\* digits of a byte, least significant first (the inv[] array of the routine)
RECURSIVE InvDigits(_)
InvDigits(b) ==
    <<DigitChar(b % 10)>> \o (IF b \div 10 # 0 THEN InvDigits(b \div 10) ELSE <<>>)

Reverse(s) == [i \in 1..Len(s) |-> s[Len(s) + 1 - i]]

\* everything the routine would write: each byte in decimal followed by "."
NtoaWritten(addr) ==
    Reverse(InvDigits(AddrByte(addr, 0))) \o <<".">> \o
    Reverse(InvDigits(AddrByte(addr, 1))) \o <<".">> \o
    Reverse(InvDigits(AddrByte(addr, 2))) \o <<".">> \o
    Reverse(InvDigits(AddrByte(addr, 3))) \o <<".">>

\* esp_ip4addr_ntoa(&addr, buf, buflen): the possible contents of buf read as
\* a string afterwards.  When the text fits, the last "." is overwritten by the
\* terminator.  When it does not, the routine returns NULL and leaves buf
\* unterminated: reading it is undefined, any prefix of the written text or
\* that text followed by stray bytes may be seen.
esp_ip4addr_ntoa(addr, buflen) ==
    LET w == NtoaWritten(addr)
    IN  IF Len(w) <= buflen
        THEN { SubSeq(w, 1, Len(w) - 1) }
        ELSE { SubSeq(w, 1, k) : k \in 0..buflen } \cup
             { SubSeq(w, 1, buflen) \o <<"?">> }

(***************************************************************************)
(* Log lines and recorded effects                                          *)
(***************************************************************************)
LogLine(level, tag, text, arg) ==
    [op |-> "log", level |-> level, tag |-> tag, text |-> text, arg |-> arg]

ConnectCall ==
    [op |-> "esp_wifi_connect", level |-> "", tag |-> "", text |-> "", arg |-> <<>>]

StreamLine(text, arg) ==
    [op |-> "log", level |-> "I", tag |-> "audio_stream", text |-> text,
     arg |-> arg, ms |-> 0]

DelayMs == 1000

DelayCall(ms) ==
    [op |-> "vTaskDelay", level |-> "", tag |-> "", text |-> "", arg |-> "", ms |-> ms]

SendLine == StreamLine("Sending fake audio chunk (%s)", MSG_TYPE_AUDIO_CHUNK)
RecvLine == StreamLine("Pretend receiving TTS data (%s)", MSG_TYPE_TTS_CHUNK)

\* keep the StreamLogWindow most recent effects of the task
Push(log, e) ==
    IF Len(log) < StreamLogWindow THEN Append(log, e) ELSE Append(Tail(log), e)

(***************************************************************************)
(* Initial state: device reset, app_main about to run                      *)
(***************************************************************************)
Init ==
    /\ mainPc = "nvs_flash_init"
    /\ nvsCalls = <<>>
    /\ mainLog = <<>>
    /\ wifiPc = "esp_netif_init"
    /\ wifiRet = "none"
    /\ calls = <<>>
    /\ handlers = {}
    /\ wifi_config = <<>>
    /\ set_config_arg = <<>>
    /\ radioMode = "WIFI_MODE_NULL"
    /\ radioStarted = FALSE
    /\ staStartPending = FALSE
    /\ conn = "Idle"
    /\ connectRet = "none"
    /\ nEvents = 0
    /\ nStaStart = 0
    /\ nDisc = 0
    /\ nGotIp = 0
    /\ lastEvent = <<>>
    /\ trace = <<>>
    /\ wifiLog = <<>>
    /\ build \in BuildConfigs
    /\ taskPc = "none"
    /\ streamLog = <<>>

\* abort() has not been called
Alive == mainPc # "aborted"

(***************************************************************************)
(* app_main (main.c:14-32)                                                 *)
(***************************************************************************)
NvsCall(fn, r) == nvsCalls' = Append(nvsCalls, [fn |-> fn, ret |-> r])

\* ESP_ERROR_CHECK(ret) at main.c:20 followed by the log line at main.c:22
CheckNvs(ret) ==
    IF ret = ESP_OK
    THEN /\ mainPc' = "wifi_init_sta"
         /\ mainLog' = Append(mainLog, LogLine("I", "main", "Initializing Wi-Fi...", <<>>))
    ELSE /\ mainPc' = "aborted"
         /\ UNCHANGED mainLog

\* main.c:15-16, and main.c:20-22 when the erase branch is not taken
NvsInit ==
    /\ mainPc = "nvs_flash_init"
    /\ \E ret \in NvsStatuses :
          /\ NvsCall("nvs_flash_init", ret)
          /\ IF ret = ESP_ERR_NVS_NO_FREE_PAGES \/ ret = ESP_ERR_NVS_NEW_VERSION_FOUND
             THEN mainPc' = "nvs_flash_erase" /\ UNCHANGED mainLog
             ELSE CheckNvs(ret)
    /\ UNCHANGED <<initVars, eventVars, taskVars, build>>

\* variant: the status of nvs_flash_erase is not checked
NvsErase_Unchecked ==
    /\ mainPc = "nvs_flash_erase"
    /\ \E r \in {ESP_OK, ESP_FAIL} :
          /\ NvsCall("nvs_flash_erase", r)
          /\ mainPc' = "nvs_flash_init_retry"
    /\ UNCHANGED <<mainLog, initVars, eventVars, taskVars, build>>

\* main.c:17
NvsErase ==
    /\ mainPc = "nvs_flash_erase"
    /\ \E r \in {ESP_OK, ESP_FAIL} :
          /\ NvsCall("nvs_flash_erase", r)
          /\ mainPc' = IF r = ESP_OK THEN "nvs_flash_init_retry" ELSE "aborted"
    /\ UNCHANGED <<mainLog, initVars, eventVars, taskVars, build>>

\* main.c:18-22
NvsReinit ==
    /\ mainPc = "nvs_flash_init_retry"
    /\ \E ret \in NvsStatuses :
          /\ NvsCall("nvs_flash_init", ret)
          /\ CheckNvs(ret)
    /\ UNCHANGED <<initVars, eventVars, taskVars, build>>

\* variant: the status of wifi_init_sta is not checked
CheckWifiInit_Unchecked ==
    /\ mainPc = "wifi_init_sta"
    /\ wifiPc = "returned"
    /\ mainPc' = "xTaskCreate"
    /\ mainLog' = Append(mainLog,
          LogLine("I", "main", "Starting audio stream task...", <<>>))
    /\ UNCHANGED <<nvsCalls, initVars, eventVars, taskVars, build>>

\* ESP_ERROR_CHECK(wifi_init_sta()) at main.c:23 and the log line at main.c:25
CheckWifiInit ==
    /\ mainPc = "wifi_init_sta"
    /\ wifiPc = "returned"
    /\ IF wifiRet = ESP_OK
       THEN /\ mainPc' = "xTaskCreate"
            /\ mainLog' = Append(mainLog,
                  LogLine("I", "main", "Starting audio stream task...", <<>>))
       ELSE /\ mainPc' = "aborted"
            /\ UNCHANGED mainLog
    /\ UNCHANGED <<nvsCalls, initVars, eventVars, taskVars, build>>

\* variant: a failed task creation aborts like a setup failure
CreateTask_FatalOnFailure ==
    /\ mainPc = "xTaskCreate"
    /\ \E task_created \in TaskCreateResults :
          IF task_created # "pdPASS"
          THEN /\ mainPc' = "aborted"
               /\ UNCHANGED <<mainLog, taskPc>>
          ELSE /\ taskPc' = "send"
               /\ mainPc' = "returned"
               /\ UNCHANGED mainLog
    /\ UNCHANGED <<nvsCalls, initVars, eventVars, streamLog, build>>

\* variant: the task is created only once an address has been acquired
CreateTask_WaitsForIp ==
    /\ mainPc = "xTaskCreate"
    /\ nGotIp > 0
    /\ \E task_created \in TaskCreateResults :
          IF task_created # "pdPASS"
          THEN /\ mainLog' = Append(mainLog,
                     LogLine("E", "main", "Failed to create audio_stream_task", <<>>))
               /\ UNCHANGED taskPc
          ELSE /\ taskPc' = "send"
               /\ UNCHANGED mainLog
    /\ mainPc' = "returned"
    /\ UNCHANGED <<nvsCalls, initVars, eventVars, streamLog, build>>

\* main.c:26-32
CreateTask ==
    /\ mainPc = "xTaskCreate"
    /\ \E task_created \in TaskCreateResults :
          IF task_created # "pdPASS"
          THEN /\ mainLog' = Append(mainLog,
                     LogLine("E", "main", "Failed to create audio_stream_task", <<>>))
               /\ UNCHANGED taskPc
          ELSE /\ taskPc' = "send"
               /\ UNCHANGED mainLog
    /\ mainPc' = "returned"
    /\ UNCHANGED <<nvsCalls, initVars, eventVars, streamLog, build>>

(***************************************************************************)
(* wifi_init_sta (wifi.c:29-95), one action per sub-step: the platform     *)
(* call together with the check of its result                              *)
(***************************************************************************)
At(pc) == mainPc = "wifi_init_sta" /\ wifiPc = pc

Called(fn, arg, r) == calls' = Append(calls, [fn |-> fn, arg |-> arg, ret |-> r])

Return(err) == wifiPc' = "returned" /\ wifiRet' = err

Goto(pc) == wifiPc' = pc /\ UNCHANGED wifiRet

\* wifi.c:32-35
NetifInit ==
    /\ At("esp_netif_init")
    /\ \E err \in StepStatuses :
          /\ Called("esp_netif_init", <<>>, err)
          /\ IF err # ESP_OK THEN Return(err)
             ELSE Goto("esp_event_loop_create_default")
    /\ UNCHANGED <<handlers, wifi_config, set_config_arg, radioMode, radioStarted,
                   staStartPending, wifiLog>>
    /\ UNCHANGED <<mainVars, eventVars, taskVars, build>>

\* variant: an existing event loop is treated as a failure
EventLoopCreate_Strict ==
    /\ At("esp_event_loop_create_default")
    /\ \E err \in StepStatuses :
          /\ Called("esp_event_loop_create_default", <<>>, err)
          /\ IF err # ESP_OK THEN Return(err)
             ELSE Goto("esp_netif_create_default_wifi_sta")
    /\ UNCHANGED <<handlers, wifi_config, set_config_arg, radioMode, radioStarted,
                   staStartPending, wifiLog>>
    /\ UNCHANGED <<mainVars, eventVars, taskVars, build>>

\* wifi.c:37-40
EventLoopCreate ==
    /\ At("esp_event_loop_create_default")
    /\ \E err \in StepStatuses :
          /\ Called("esp_event_loop_create_default", <<>>, err)
          /\ IF err # ESP_OK /\ err # ESP_ERR_INVALID_STATE THEN Return(err)
             ELSE Goto("esp_netif_create_default_wifi_sta")
    /\ UNCHANGED <<handlers, wifi_config, set_config_arg, radioMode, radioStarted,
                   staStartPending, wifiLog>>
    /\ UNCHANGED <<mainVars, eventVars, taskVars, build>>

\* wifi.c:42-45
CreateSta ==
    /\ At("esp_netif_create_default_wifi_sta")
    /\ \E netif \in NetifResults :
          /\ Called("esp_netif_create_default_wifi_sta", <<>>, netif)
          /\ IF netif = "NULL" THEN Return(ESP_FAIL)
             ELSE Goto("esp_wifi_init")
    /\ UNCHANGED <<handlers, wifi_config, set_config_arg, radioMode, radioStarted,
                   staStartPending, wifiLog>>
    /\ UNCHANGED <<mainVars, eventVars, taskVars, build>>

\* variant: the radio is started right after its initialisation, before the
\* handler is registered
WifiInit_StartsEarly ==
    /\ At("esp_wifi_init")
    /\ \E err \in StepStatuses :
          /\ Called("esp_wifi_init", <<"WIFI_INIT_CONFIG_DEFAULT">>, err)
          /\ IF err # ESP_OK THEN Return(err)
             ELSE Goto("esp_wifi_start")
    /\ UNCHANGED <<handlers, wifi_config, set_config_arg, radioMode, radioStarted,
                   staStartPending, wifiLog>>
    /\ UNCHANGED <<mainVars, eventVars, taskVars, build>>

\* wifi.c:47-51
WifiInit ==
    /\ At("esp_wifi_init")
    /\ \E err \in StepStatuses :
          /\ Called("esp_wifi_init", <<"WIFI_INIT_CONFIG_DEFAULT">>, err)
          /\ IF err # ESP_OK THEN Return(err)
             ELSE Goto("register_wifi_event")
    /\ UNCHANGED <<handlers, wifi_config, set_config_arg, radioMode, radioStarted,
                   staStartPending, wifiLog>>
    /\ UNCHANGED <<mainVars, eventVars, taskVars, build>>

\* wifi.c:53-56
RegisterWifiEvent ==
    /\ At("register_wifi_event")
    /\ \E err \in StepStatuses :
          /\ Called("esp_event_handler_instance_register",
                    <<WIFI_EVENT, ESP_EVENT_ANY_ID>>, err)
          /\ IF err # ESP_OK
             THEN Return(err) /\ UNCHANGED handlers
             ELSE /\ Goto("register_ip_event")
                  /\ handlers' = handlers \cup {<<WIFI_EVENT, ESP_EVENT_ANY_ID>>}
    /\ UNCHANGED <<wifi_config, set_config_arg, radioMode, radioStarted,
                   staStartPending, wifiLog>>
    /\ UNCHANGED <<mainVars, eventVars, taskVars, build>>

\* wifi.c:57-60
RegisterIpEvent ==
    /\ At("register_ip_event")
    /\ \E err \in StepStatuses :
          /\ Called("esp_event_handler_instance_register",
                    <<IP_EVENT, IP_EVENT_STA_GOT_IP>>, err)
          /\ IF err # ESP_OK
             THEN Return(err) /\ UNCHANGED handlers
             ELSE /\ Goto("load_credentials")
                  /\ handlers' = handlers \cup {<<IP_EVENT, IP_EVENT_STA_GOT_IP>>}
    /\ UNCHANGED <<wifi_config, set_config_arg, radioMode, radioStarted,
                   staStartPending, wifiLog>>
    /\ UNCHANGED <<mainVars, eventVars, taskVars, build>>

\* variant: the configuration is applied without setting station mode
LoadCredentials_SkipsMode ==
    /\ At("load_credentials")
    /\ wifi_config' = <<StaConfig(build.ssid, build.password)>>
    /\ Goto("esp_wifi_set_config")
    /\ UNCHANGED <<calls, handlers, set_config_arg, radioMode, radioStarted,
                   staStartPending, wifiLog>>
    /\ UNCHANGED <<mainVars, eventVars, taskVars, build>>

\* wifi.c:62-74: the local wifi_config is initialised and the credentials copied
LoadCredentials ==
    /\ At("load_credentials")
    /\ wifi_config' = <<StaConfig(build.ssid, build.password)>>
    /\ Goto("esp_wifi_set_mode")
    /\ UNCHANGED <<calls, handlers, set_config_arg, radioMode, radioStarted,
                   staStartPending, wifiLog>>
    /\ UNCHANGED <<mainVars, eventVars, taskVars, build>>

\* wifi.c:76-79
SetMode ==
    /\ At("esp_wifi_set_mode")
    /\ \E err \in StepStatuses :
          /\ Called("esp_wifi_set_mode", <<"WIFI_MODE_STA">>, err)
          /\ IF err # ESP_OK
             THEN Return(err) /\ UNCHANGED radioMode
             ELSE Goto("esp_wifi_set_config") /\ radioMode' = "WIFI_MODE_STA"
    /\ UNCHANGED <<handlers, wifi_config, set_config_arg, radioStarted,
                   staStartPending, wifiLog>>
    /\ UNCHANGED <<mainVars, eventVars, taskVars, build>>

\* variant: the status of esp_wifi_set_config is not checked
SetConfig_Unchecked ==
    /\ At("esp_wifi_set_config")
    /\ set_config_arg' = wifi_config
    /\ \E err \in StepStatuses :
          /\ Called("esp_wifi_set_config", <<"WIFI_IF_STA">>, err)
          /\ Goto("esp_wifi_start")
    /\ UNCHANGED <<handlers, wifi_config, radioMode, radioStarted,
                   staStartPending, wifiLog>>
    /\ UNCHANGED <<mainVars, eventVars, taskVars, build>>

\* wifi.c:81-84
SetConfig ==
    /\ At("esp_wifi_set_config")
    /\ set_config_arg' = wifi_config
    /\ \E err \in StepStatuses :
          /\ Called("esp_wifi_set_config", <<"WIFI_IF_STA">>, err)
          /\ IF err # ESP_OK THEN Return(err)
             ELSE Goto("esp_wifi_start")
    /\ UNCHANGED <<handlers, wifi_config, radioMode, radioStarted,
                   staStartPending, wifiLog>>
    /\ UNCHANGED <<mainVars, eventVars, taskVars, build>>

\* wifi.c:86-89; a started radio posts WIFI_EVENT_STA_START
Start ==
    /\ At("esp_wifi_start")
    /\ \E err \in StepStatuses :
          /\ Called("esp_wifi_start", <<>>, err)
          /\ IF err # ESP_OK
             THEN /\ Return(err)
                  /\ UNCHANGED <<radioStarted, staStartPending, conn>>
             ELSE /\ Goto("finish")
                  /\ radioStarted' = TRUE
                  /\ staStartPending' = TRUE
                  /\ conn' = "Starting"
    /\ UNCHANGED <<handlers, wifi_config, set_config_arg, radioMode, wifiLog>>
    /\ UNCHANGED <<mainVars, connectRet, nEvents, nStaStart, nDisc, nGotIp,
                   lastEvent, trace, taskVars, build>>

\* wifi.c:91-94
Finish ==
    /\ At("finish")
    /\ wifiLog' = Append(wifiLog,
          LogLine("I", "wifi", "Wi-Fi init STA finished. Connecting to %s", build.ssid))
    /\ Return(ESP_OK)
    /\ UNCHANGED <<calls, handlers, wifi_config, set_config_arg, radioMode,
                   radioStarted, staStartPending>>
    /\ UNCHANGED <<mainVars, eventVars, taskVars, build>>

(***************************************************************************)
(* wifi_event_handler (wifi.c:14-27)                                       *)
(* The handler keeps no state: its result is the sequence of effects it    *)
(* produces (log lines, connection attempts).  A set is returned because   *)
(* the text read from ip_str can be undetermined.                          *)
(***************************************************************************)
\* variant: the station-connected event is logged
wifi_event_handler_LogsConnected(event_base, event_id, event_data) ==
    IF event_base = WIFI_EVENT /\ event_id = WIFI_EVENT_STA_START
    THEN { <<ConnectCall>> }
    ELSE IF event_base = WIFI_EVENT /\ event_id = WIFI_EVENT_STA_DISCONNECTED
    THEN { <<LogLine("W", "wifi", "Wi-Fi disconnected, retrying...", <<>>),
             ConnectCall>> }
    ELSE IF event_base = IP_EVENT /\ event_id = IP_EVENT_STA_GOT_IP
    THEN { <<LogLine("I", "wifi", "Connected, got IP: %s", ip_str)>> :
              ip_str \in esp_ip4addr_ntoa(event_data, IpStrBufLen) }
    ELSE IF event_base = WIFI_EVENT /\ event_id = WIFI_EVENT_STA_CONNECTED
    THEN { <<LogLine("I", "wifi", "Wi-Fi connected", <<>>)>> }
    ELSE { <<>> }

\* variant: the station is abandoned after two disconnects
wifi_event_handler_GivesUp(event_base, event_id, event_data) ==
    IF event_base = WIFI_EVENT /\ event_id = WIFI_EVENT_STA_START
    THEN { <<ConnectCall>> }
    ELSE IF event_base = WIFI_EVENT /\ event_id = WIFI_EVENT_STA_DISCONNECTED
    THEN IF nDisc < 2
         THEN { <<LogLine("W", "wifi", "Wi-Fi disconnected, retrying...", <<>>),
                  ConnectCall>> }
         ELSE { <<LogLine("E", "wifi", "Wi-Fi disconnected, giving up", <<>>)>> }
    ELSE IF event_base = IP_EVENT /\ event_id = IP_EVENT_STA_GOT_IP
    THEN { <<LogLine("I", "wifi", "Connected, got IP: %s", ip_str)>> :
              ip_str \in esp_ip4addr_ntoa(event_data, IpStrBufLen) }
    ELSE { <<>> }

\* variant: the station-start event does not start a connection
wifi_event_handler_NoConnectOnStart(event_base, event_id, event_data) ==
    IF event_base = WIFI_EVENT /\ event_id = WIFI_EVENT_STA_DISCONNECTED
    THEN { <<LogLine("W", "wifi", "Wi-Fi disconnected, retrying...", <<>>),
             ConnectCall>> }
    ELSE IF event_base = IP_EVENT /\ event_id = IP_EVENT_STA_GOT_IP
    THEN { <<LogLine("I", "wifi", "Connected, got IP: %s", ip_str)>> :
              ip_str \in esp_ip4addr_ntoa(event_data, IpStrBufLen) }
    ELSE { <<>> }

\* variant: only the first disconnect is retried
wifi_event_handler_RetryOnce(event_base, event_id, event_data) ==
    IF event_base = WIFI_EVENT /\ event_id = WIFI_EVENT_STA_START
    THEN { <<ConnectCall>> }
    ELSE IF event_base = WIFI_EVENT /\ event_id = WIFI_EVENT_STA_DISCONNECTED
    THEN IF nDisc < 1
         THEN { <<LogLine("W", "wifi", "Wi-Fi disconnected, retrying...", <<>>),
                  ConnectCall>> }
         ELSE { <<LogLine("W", "wifi", "Wi-Fi disconnected, retrying...", <<>>)>> }
    ELSE IF event_base = IP_EVENT /\ event_id = IP_EVENT_STA_GOT_IP
    THEN { <<LogLine("I", "wifi", "Connected, got IP: %s", ip_str)>> :
              ip_str \in esp_ip4addr_ntoa(event_data, IpStrBufLen) }
    ELSE { <<>> }

wifi_event_handler(event_base, event_id, event_data) ==
    IF event_base = WIFI_EVENT /\ event_id = WIFI_EVENT_STA_START
    THEN { <<ConnectCall>> }
    ELSE IF event_base = WIFI_EVENT /\ event_id = WIFI_EVENT_STA_DISCONNECTED
    THEN { <<LogLine("W", "wifi", "Wi-Fi disconnected, retrying...", <<>>),
             ConnectCall>> }
    ELSE IF event_base = IP_EVENT /\ event_id = IP_EVENT_STA_GOT_IP
    THEN { <<LogLine("I", "wifi", "Connected, got IP: %s", ip_str)>> :
              ip_str \in esp_ip4addr_ntoa(event_data, IpStrBufLen) }
    ELSE { <<>> }

\* the handler instance registrations that match an event
Registered(event_base, event_id) ==
    \/ <<event_base, ESP_EVENT_ANY_ID>> \in handlers
    \/ <<event_base, event_id>> \in handlers

ConnectCallsIn(eff) == Cardinality({i \in 1..Len(eff) : eff[i] = ConnectCall})

\* The event loop task dispatches one event.  connAfter is the lifecycle state
\* the platform is in when the handler runs; an accepted esp_wifi_connect moves
\* it to Connecting, a rejected one leaves it, and the handler drops the result.
Dispatch(event_base, event_id, event_data, connAfter) ==
    /\ Alive
    /\ nEvents < MaxEvents
    /\ nEvents' = nEvents + 1
    /\ lastEvent' = <<event_base, event_id, event_data>>
    /\ LET reg == Registered(event_base, event_id)
       IN  /\ nStaStart' = nStaStart +
                 (IF reg /\ event_id = WIFI_EVENT_STA_START THEN 1 ELSE 0)
           /\ nDisc' = nDisc +
                 (IF reg /\ event_id = WIFI_EVENT_STA_DISCONNECTED THEN 1 ELSE 0)
           /\ nGotIp' = nGotIp +
                 (IF reg /\ event_id = IP_EVENT_STA_GOT_IP THEN 1 ELSE 0)
           /\ \E eff \in (IF reg
                          THEN wifi_event_handler(event_base, event_id, event_data)
                          ELSE { <<>> }) :
                 /\ trace' = trace \o eff
                 /\ \E r \in ConnectResults :
                       /\ conn' = IF ConnectCallsIn(eff) > 0 /\ r = ESP_OK
                                  THEN "Connecting" ELSE connAfter
                       /\ connectRet' = IF ConnectCallsIn(eff) > 0
                                        THEN r ELSE connectRet

DeliverStaStart ==
    /\ staStartPending
    /\ staStartPending' = FALSE
    /\ Dispatch(WIFI_EVENT, WIFI_EVENT_STA_START, <<>>, conn)
    /\ UNCHANGED <<wifiPc, wifiRet, calls, handlers, wifi_config, set_config_arg,
                   radioMode, radioStarted, wifiLog>>
    /\ UNCHANGED <<mainVars, taskVars, build>>

DeliverStaConnected ==
    /\ conn = "Connecting"
    /\ Dispatch(WIFI_EVENT, WIFI_EVENT_STA_CONNECTED, <<>>, "ConnectedNoIp")
    /\ UNCHANGED <<initVars, mainVars, taskVars, build>>

DeliverStaDisconnected ==
    /\ conn \in {"Connecting", "ConnectedNoIp", "ConnectedWithIp"}
    /\ Dispatch(WIFI_EVENT, WIFI_EVENT_STA_DISCONNECTED, <<>>, "Disconnected")
    /\ UNCHANGED <<initVars, mainVars, taskVars, build>>

DeliverGotIp ==
    /\ conn \in {"ConnectedNoIp", "ConnectedWithIp"}
    /\ \E addr \in IpAddrs :
          Dispatch(IP_EVENT, IP_EVENT_STA_GOT_IP, addr, "ConnectedWithIp")
    /\ UNCHANGED <<initVars, mainVars, taskVars, build>>

DeliverOther ==
    /\ radioStarted
    /\ \E id \in OtherWifiEvents : Dispatch(WIFI_EVENT, id, <<>>, conn)
    /\ UNCHANGED <<initVars, mainVars, taskVars, build>>

(***************************************************************************)
(* audio_stream_task (audio_stream.c:8-21)                                 *)
(***************************************************************************)
\* variant: sending starts a connection attempt of its own
AudioSend_Connects ==
    /\ Alive
    /\ taskPc = "send"
    /\ streamLog' = Push(streamLog, SendLine)
    /\ taskPc' = "recv"
    /\ trace' = Append(trace, ConnectCall)
    /\ conn' = "Connecting"
    /\ UNCHANGED <<mainVars, initVars, connectRet, nEvents, nStaStart, nDisc,
                   nGotIp, lastEvent, build>>

\* audio_stream.c:13
AudioSend ==
    /\ Alive
    /\ taskPc = "send"
    /\ streamLog' = Push(streamLog, SendLine)
    /\ taskPc' = "recv"
    /\ UNCHANGED <<mainVars, initVars, eventVars, build>>

\* audio_stream.c:16
AudioRecv ==
    /\ Alive
    /\ taskPc = "recv"
    /\ streamLog' = Push(streamLog, RecvLine)
    /\ taskPc' = "delay"
    /\ UNCHANGED <<mainVars, initVars, eventVars, build>>

\* variant: the task function returns after one cycle
AudioDelay_Once ==
    /\ Alive
    /\ taskPc = "delay"
    /\ streamLog' = Push(streamLog, DelayCall(DelayMs))
    /\ taskPc' = "exited"
    /\ UNCHANGED <<mainVars, initVars, eventVars, build>>

\* audio_stream.c:19 and the loop back at audio_stream.c:12
AudioDelay ==
    /\ Alive
    /\ taskPc = "delay"
    /\ streamLog' = Push(streamLog, DelayCall(DelayMs))
    /\ taskPc' = "send"
    /\ UNCHANGED <<mainVars, initVars, eventVars, build>>

Next ==
    \/ NvsInit \/ NvsErase \/ NvsReinit \/ CheckWifiInit \/ CreateTask
    \/ NetifInit \/ EventLoopCreate \/ CreateSta \/ WifiInit
    \/ RegisterWifiEvent \/ RegisterIpEvent \/ LoadCredentials
    \/ SetMode \/ SetConfig \/ Start \/ Finish
    \/ DeliverStaStart \/ DeliverStaConnected \/ DeliverStaDisconnected
    \/ DeliverGotIp \/ DeliverOther
    \/ AudioSend \/ AudioRecv \/ AudioDelay

Spec == Init /\ [][Next]_vars

\* the scheduler runs the streaming task whenever it is ready
FairSpec == Spec /\ WF_vars(AudioSend) /\ WF_vars(AudioRecv) /\ WF_vars(AudioDelay)

(***************************************************************************)
(* Properties                                                              *)
(***************************************************************************)
Last(s) == s[Len(s)]

IsPrefix(s, t) == Len(s) <= Len(t) /\ \A i \in 1..Len(s) : s[i] = t[i]

\* a sub-step failed: no interface from station-interface creation, a status
\* other than success (or "already exists") from event-loop creation, a
\* non-success status from any other sub-step
SubStepFailed(c) ==
    IF c.fn = "esp_netif_create_default_wifi_sta" THEN c.ret = "NULL"
    ELSE IF c.fn = "esp_event_loop_create_default"
    THEN c.ret # ESP_OK /\ c.ret # ESP_ERR_INVALID_STATE
    ELSE c.ret # ESP_OK

\* the status wifi_init_sta is to return for a failed sub-step
FailureStatus(c) ==
    IF c.fn = "esp_netif_create_default_wifi_sta" THEN ESP_FAIL ELSE c.ret

\* the sub-steps invoked so far, as <<function, arguments>>
SubSteps == [i \in 1..Len(calls) |-> <<calls[i].fn, calls[i].arg>>]

\* the order stated by the specification: configuration before mode
ClaimedOrder ==
    << <<"esp_netif_init", <<>>>>,
       <<"esp_event_loop_create_default", <<>>>>,
       <<"esp_netif_create_default_wifi_sta", <<>>>>,
       <<"esp_wifi_init", <<"WIFI_INIT_CONFIG_DEFAULT">>>>,
       <<"esp_event_handler_instance_register", <<WIFI_EVENT, ESP_EVENT_ANY_ID>>>>,
       <<"esp_event_handler_instance_register", <<IP_EVENT, IP_EVENT_STA_GOT_IP>>>>,
       <<"esp_wifi_set_config", <<"WIFI_IF_STA">>>>,
       <<"esp_wifi_set_mode", <<"WIFI_MODE_STA">>>>,
       <<"esp_wifi_start", <<>>>> >>

\* the same order with station mode set before the configuration is applied
ModeFirstOrder ==
    << <<"esp_netif_init", <<>>>>,
       <<"esp_event_loop_create_default", <<>>>>,
       <<"esp_netif_create_default_wifi_sta", <<>>>>,
       <<"esp_wifi_init", <<"WIFI_INIT_CONFIG_DEFAULT">>>>,
       <<"esp_event_handler_instance_register", <<WIFI_EVENT, ESP_EVENT_ANY_ID>>>>,
       <<"esp_event_handler_instance_register", <<IP_EVENT, IP_EVENT_STA_GOT_IP>>>>,
       <<"esp_wifi_set_mode", <<"WIFI_MODE_STA">>>>,
       <<"esp_wifi_set_config", <<"WIFI_IF_STA">>>>,
       <<"esp_wifi_start", <<>>>> >>

NumSubSteps == Len(ModeFirstOrder)

\* C1: wifi_init_sta returns the failing sub-step's status (ESP_FAIL when no
\* station interface is created) at the first failing sub-step, invokes no
\* sub-step after a failed one, and returns ESP_OK only when all nine
\* sub-steps were invoked and none failed.
C1_FailFast ==
    /\ \A i \in 1..(Len(calls) - 1) : ~SubStepFailed(calls[i])
    /\ (calls # <<>> /\ SubStepFailed(Last(calls))) =>
          /\ wifiPc = "returned"
          /\ wifiRet = FailureStatus(Last(calls))
          /\ wifiRet # ESP_OK
    /\ (wifiPc = "returned" /\ wifiRet # ESP_OK) =>
          (calls # <<>> /\ SubStepFailed(Last(calls)))
    /\ (wifiPc = "returned" /\ wifiRet = ESP_OK) =>
          /\ Len(calls) = NumSubSteps
          /\ \A i \in 1..Len(calls) : ~SubStepFailed(calls[i])

\* wifi_init_sta has returned a failure from a sub-step in the middle
C1_Witness ==
    /\ wifiPc = "returned"
    /\ wifiRet = ESP_ERR_NO_MEM
    /\ Len(calls) = 8
    /\ Last(calls).fn = "esp_wifi_set_config"

\* C2: ESP_ERR_INVALID_STATE from esp_event_loop_create_default is not
\* returned at that step; wifi_init_sta goes on and returns ESP_OK when the
\* remaining sub-steps succeed.  Any other non-success status from that step
\* is returned immediately.
C2_EventLoopTolerated ==
    (Len(calls) >= 2) =>
        LET e == calls[2].ret
        IN  /\ calls[2].fn = "esp_event_loop_create_default"
            /\ (e = ESP_ERR_INVALID_STATE) =>
                  /\ wifiPc = "returned" => Len(calls) > 2
                  /\ (/\ wifiPc = "returned"
                      /\ \A i \in 3..Len(calls) : ~SubStepFailed(calls[i]))
                        => (wifiRet = ESP_OK /\ Len(calls) = NumSubSteps)
            /\ (e # ESP_OK /\ e # ESP_ERR_INVALID_STATE) =>
                  (wifiPc = "returned" /\ wifiRet = e /\ Len(calls) = 2)

\* bring-up succeeded although the event loop already existed
C2_Witness ==
    /\ Len(calls) = NumSubSteps
    /\ calls[2].ret = ESP_ERR_INVALID_STATE
    /\ wifiPc = "returned"
    /\ wifiRet = ESP_OK

WarnLine == LogLine("W", "wifi", "Wi-Fi disconnected, retrying...", <<>>)

\* reconnect attempts: connection attempts made right after the warning
ReconnectAttempts ==
    Cardinality({i \in 1..(Len(trace) - 1) :
                    trace[i] = WarnLine /\ trace[i + 1] = ConnectCall})

Warnings == Cardinality({i \in 1..Len(trace) : trace[i] = WarnLine})

\* C3: after n station-disconnected events the handler has logged n warnings
\* and made exactly n reconnect attempts, one right after each warning,
\* whatever n is (no retry limit, no debouncing).
C3_OneRetryPerDisconnect ==
    /\ ReconnectAttempts = nDisc
    /\ Warnings = nDisc

\* several disconnects in a row, each retried
C3_Witness ==
    /\ nDisc >= 3
    /\ ReconnectAttempts >= 3
    /\ lastEvent # <<>>
    /\ lastEvent[2] = WIFI_EVENT_STA_DISCONNECTED

\* C4 as stated: the sub-steps are invoked in the order network layer, event
\* loop, station interface, radio init, handler registration (radio events,
\* IP-acquired event), station configuration, station mode, radio start.
C4_ClaimedOrder == IsPrefix(SubSteps, ClaimedOrder)

\* C4 (amended): the sub-steps are invoked in the order network layer, event
\* loop, station interface, radio init, handler registration (radio events,
\* IP-acquired event), station mode, station configuration, radio start; the
\* configuration is passed to the radio only after station mode was set, and
\* wifi_init_sta returns ESP_OK only after all of them.
C4_ModeBeforeConfig ==
    /\ IsPrefix(SubSteps, ModeFirstOrder)
    /\ set_config_arg # <<>> => radioMode = "WIFI_MODE_STA"
    /\ wifiRet = ESP_OK => SubSteps = ModeFirstOrder

\* the whole bring-up sequence has been invoked
C4_Witness ==
    /\ Len(calls) = NumSubSteps
    /\ calls[7].fn = "esp_wifi_set_mode"
    /\ calls[8].fn = "esp_wifi_set_config"
    /\ radioStarted

\* the effects of the streaming task follow the cycle send, receive, delay
FollowsInCycle(a, b) ==
    \/ a = SendLine /\ b = RecvLine
    \/ a = RecvLine /\ b = DelayCall(1000)
    \/ a = DelayCall(1000) /\ b = SendLine

TaskStarted == taskPc # "none"

\* the statement the task executes next, given its most recent effect
TaskInStep ==
    IF streamLog = <<>> THEN taskPc = "send"
    ELSE \/ Last(streamLog) = SendLine /\ taskPc = "recv"
         \/ Last(streamLog) = RecvLine /\ taskPc = "delay"
         \/ Last(streamLog) = DelayCall(1000) /\ taskPc = "send"

\* C5: once started, audio_stream_task never terminates; its effects are a
\* repetition of one "send" line, one "receive" line and one 1000 ms delay in
\* that order, and each of the three happens again and again forever.
C5_StreamsForever ==
    /\ [](TaskStarted => TaskInStep)
    /\ [](\A i \in 1..(Len(streamLog) - 1) :
             FollowsInCycle(streamLog[i], streamLog[i + 1]))
    /\ [][TaskStarted => taskPc' \in {"send", "recv", "delay"}]_vars
    /\ (TaskStarted ~> (taskPc = "recv" /\ Last(streamLog) = SendLine))
    /\ (TaskStarted ~> (taskPc = "delay" /\ Last(streamLog) = RecvLine))
    /\ (TaskStarted ~> (taskPc = "send" /\ streamLog # <<>>
                           /\ Last(streamLog) = DelayCall(1000)))

\* the task is in its second cycle
C5_Witness ==
    /\ taskPc = "recv"
    /\ Len(streamLog) >= 4
    /\ SubSeq(streamLog, Len(streamLog) - 3, Len(streamLog))
          = <<SendLine, RecvLine, DelayCall(1000), SendLine>>

WifiInitFailed == wifiPc = "returned" /\ wifiRet # ESP_OK

\* C6: when wifi_init_sta returns a non-success status, the only step app_main
\* takes is the abort; the streaming task is never created and no streaming
\* line is produced, and nothing runs after the abort.
C6_InitFailureFatal ==
    /\ [](WifiInitFailed =>
            /\ mainPc \in {"wifi_init_sta", "aborted"}
            /\ taskPc = "none"
            /\ streamLog = <<>>)
    /\ [][WifiInitFailed => (mainPc = "wifi_init_sta" /\ mainPc' = "aborted")]_vars

\* app_main aborted on a failed bring-up
C6_Witness ==
    /\ mainPc = "aborted"
    /\ wifiPc = "returned"
    /\ wifiRet \in {ESP_FAIL, ESP_ERR_NO_MEM, ESP_ERR_INVALID_STATE}

\* C7: after wifi_init_sta returned ESP_OK, app_main can go on at once and
\* the task can be created at once, whatever the connection state is and
\* whether or not an address has been acquired.
C7_TaskNotGatedOnNetwork ==
    /\ (mainPc = "wifi_init_sta" /\ wifiPc = "returned" /\ wifiRet = ESP_OK)
          => ENABLED (CheckWifiInit /\ mainPc' = "xTaskCreate")
    /\ (mainPc = "xTaskCreate") => ENABLED (CreateTask /\ taskPc' = "send")

\* the task logs while the station is retrying after a disconnect and no
\* address was ever acquired
C7_Witness ==
    /\ streamLog # <<>>
    /\ taskPc \in {"send", "recv", "delay"}
    /\ nGotIp = 0
    /\ nDisc >= 1
    /\ conn = "Connecting"

\* reading dotted-decimal text back: the groups of characters between dots
RECURSIVE DotGroups(_, _)
DotGroups(s, cur) ==
    IF s = <<>> THEN <<cur>>
    ELSE IF Head(s) = "." THEN <<cur>> \o DotGroups(Tail(s), <<>>)
    ELSE DotGroups(Tail(s), Append(cur, Head(s)))

DecimalDigits == {"0", "1", "2", "3", "4", "5", "6", "7", "8", "9"}

DigitValue(c) ==
    CASE c = "0" -> 0 [] c = "1" -> 1 [] c = "2" -> 2 [] c = "3" -> 3
      [] c = "4" -> 4 [] c = "5" -> 5 [] c = "6" -> 6 [] c = "7" -> 7
      [] c = "8" -> 8 [] c = "9" -> 9

RECURSIVE GroupValue(_)
GroupValue(g) ==
    IF g = <<>> THEN 0
    ELSE 10 * GroupValue(SubSeq(g, 1, Len(g) - 1)) + DigitValue(g[Len(g)])

\* four groups of one to three decimal digits without leading zero, each at
\* most 255, separated by single dots
IsDottedDecimal(s) ==
    LET gs == DotGroups(s, <<>>)
    IN  /\ Len(gs) = 4
        /\ \A k \in 1..4 :
              /\ Len(gs[k]) \in 1..3
              /\ \A j \in 1..Len(gs[k]) : gs[k][j] \in DecimalDigits
              /\ Len(gs[k]) > 1 => gs[k][1] # "0"
              /\ GroupValue(gs[k]) <= 255

\* the octets a dotted-decimal text denotes, first octet first
DottedOctets(s) ==
    LET gs == DotGroups(s, <<>>) IN [k \in 1..Len(gs) |-> GroupValue(gs[k])]

\* C8: a dispatched IP-acquired event appends exactly one effect to those of
\* the handler: an information line whose argument is the dotted-decimal text
\* of the address in the event payload, short enough for the 16-byte buffer
\* with its terminator; no connection attempt is made.
C8_GotIpLogged ==
    [][(nGotIp' = nGotIp + 1) =>
          /\ Len(trace') = Len(trace) + 1
          /\ SubSeq(trace', 1, Len(trace)) = trace
          /\ LET line == trace'[Len(trace')]
                 addr == lastEvent'[3]
             IN  /\ lastEvent'[1] = IP_EVENT
                 /\ lastEvent'[2] = IP_EVENT_STA_GOT_IP
                 /\ line.op = "log"
                 /\ line.level = "I"
                 /\ line.text = "Connected, got IP: %s"
                 /\ IsDottedDecimal(line.arg)
                 /\ DottedOctets(line.arg) = addr
                 /\ Len(line.arg) + 1 <= 16
                 /\ line # ConnectCall]_vars

\* 192.168.1.10 was acquired and logged
C8_Witness ==
    /\ nGotIp >= 1
    /\ lastEvent = <<IP_EVENT, IP_EVENT_STA_GOT_IP, <<192, 168, 1, 10>>>>
    /\ trace # <<>>
    /\ Last(trace).arg = <<"1", "9", "2", ".", "1", "6", "8", ".", "1", ".", "1", "0">>

\* a field of the given size holds the source string when it has fewer
\* characters than the size, else its first size-1 characters; in both cases
\* a terminator follows
FieldHolds(field, src, size) ==
    /\ Len(field) = size
    /\ LET n == IF Len(src) <= size - 1 THEN Len(src) ELSE size - 1
       IN  /\ \A i \in 1..n : field[i] = src[i] /\ field[i] # 0
           /\ field[n + 1] = 0

\* C9: the configuration passed to esp_wifi_set_config holds the configured
\* network name in its 32-byte SSID field and the passphrase in its 64-byte
\* password field, whole when shorter than the field and otherwise cut to
\* the field size minus one, terminated in both cases; the authentication
\* threshold is WPA2-PSK, protected management frames capable, not required.
C9_StationConfig ==
    set_config_arg # <<>> =>
        LET cfg == set_config_arg[1]
        IN  /\ FieldHolds(cfg.ssid, build.ssid, 32)
            /\ FieldHolds(cfg.password, build.password, 64)
            /\ cfg.authmode = "WIFI_AUTH_WPA2_PSK"
            /\ cfg.pmf_capable = TRUE
            /\ cfg.pmf_required = FALSE

\* a network name longer than the field was passed, cut to 31 characters
C9_Witness ==
    /\ set_config_arg # <<>>
    /\ Len(build.ssid) > 32
    /\ Len(CStr(set_config_arg[1].ssid)) = 31
    /\ Last(calls).fn = "esp_wifi_set_config"

ConnectAttempts == Cardinality({i \in 1..Len(trace) : trace[i] = ConnectCall})

\* C10: the number of esp_wifi_connect calls equals the number of
\* station-start events plus the number of station-disconnected events
\* handled, and a station-start event adds exactly one call and nothing else.
C10_ConnectCount ==
    /\ [](ConnectAttempts = nStaStart + nDisc)
    /\ [][(nStaStart' = nStaStart + 1) => trace' = Append(trace, ConnectCall)]_vars

\* the start event and a disconnect were handled
C10_Witness ==
    /\ nStaStart = 1
    /\ nDisc = 1
    /\ ConnectAttempts = 2
    /\ trace[1] = ConnectCall

\* C11 as stated: a handled station-disconnected event always leads back to
\* Connecting.
C11_AlwaysBackToConnecting ==
    [][(nDisc' = nDisc + 1) => conn' = "Connecting"]_vars

\* C11 (amended): whenever a station-disconnected event is handled, however
\* many were handled before, the handler logs the warning and makes a new
\* connection attempt.  The attempt takes the lifecycle back to Connecting
\* when esp_wifi_connect accepts it and leaves it Disconnected when
\* esp_wifi_connect reports an error.  The status is dropped: the handler
\* records the attempt without it, and neither the status returned by
\* wifi_init_sta, nor app_main, nor any log of the other units changes.
\* While the platform can report a disconnect, the step back to Connecting
\* is possible.
C11_RetryOnEveryDisconnect ==
    /\ [][(nDisc' = nDisc + 1) =>
            /\ trace' = trace \o <<WarnLine, ConnectCall>>
            /\ DOMAIN trace'[Len(trace')] = {"op", "level", "tag", "text", "arg"}
            /\ connectRet' \in {ESP_OK, "ESP_ERR_WIFI_CONN"}
            /\ (connectRet' = ESP_OK) => (conn' = "Connecting")
            /\ (connectRet' # ESP_OK) => (conn' = "Disconnected")
            /\ UNCHANGED <<wifiPc, wifiRet, calls, wifiLog, mainPc, mainLog,
                           taskPc, streamLog>>]_vars
    /\ []((ENABLED DeliverStaDisconnected) =>
            ENABLED (DeliverStaDisconnected /\ conn' = "Connecting"))

\* the first disconnect was retried and led back to Connecting; the retry
\* after the second one was rejected and the station is left Disconnected
C11_Witness ==
    /\ nDisc = 2
    /\ nStaStart = 1
    /\ lastEvent # <<>>
    /\ lastEvent[2] = WIFI_EVENT_STA_DISCONNECTED
    /\ ConnectAttempts = 3
    /\ connectRet = "ESP_ERR_WIFI_CONN"
    /\ conn = "Disconnected"

\* a step of the streaming task: it has produced an effect
TaskStep == taskPc \in {"send", "recv", "delay"} /\ taskPc' # taskPc

\* an event was dispatched by the event loop
EventStep == nEvents' = nEvents + 1

\* C12: a step of audio_stream_task leaves the connection state, the
\* effects of the handler (its connection attempts and log lines) and the
\* event counts unchanged; a dispatched Wi-Fi or IP event leaves the task's
\* position in its cycle and its effects unchanged.
C12_NoSharedState ==
    /\ [][TaskStep => UNCHANGED <<conn, trace, nEvents, nStaStart, nDisc, nGotIp,
                                  lastEvent, handlers, radioStarted, radioMode>>]_vars
    /\ [][EventStep => UNCHANGED <<taskPc, streamLog>>]_vars

\* the task is in the middle of a cycle and events were handled since it
\* started, some of them connection attempts
C12_Witness ==
    /\ taskPc = "delay"
    /\ Len(streamLog) >= 2
    /\ nEvents >= 2
    /\ ConnectAttempts >= 2
    /\ nGotIp = 0

\* position of a sub-step in the calls of wifi_init_sta (0 if not invoked)
CallIndex(fn, arg) ==
    IF \E i \in 1..Len(calls) : calls[i].fn = fn /\ calls[i].arg = arg
    THEN CHOOSE i \in 1..Len(calls) : calls[i].fn = fn /\ calls[i].arg = arg
    ELSE 0

Succeeded(fn, arg) ==
    \E i \in 1..Len(calls) :
        calls[i].fn = fn /\ calls[i].arg = arg /\ calls[i].ret = ESP_OK

\* C13: a connection attempt is made only once the radio has started;
\* esp_wifi_start is invoked only after both registrations of the handler,
\* set-mode and set-config succeeded; the station-start event is posted only
\* to a registered handler and, once dispatched, has reached it.
C13_ConnectOnlyAfterStart ==
    /\ ConnectAttempts > 0 => radioStarted
    /\ nEvents > 0 => radioStarted
    /\ CallIndex("esp_wifi_start", <<>>) > 0 =>
          /\ Succeeded("esp_event_handler_instance_register",
                       <<WIFI_EVENT, ESP_EVENT_ANY_ID>>)
          /\ Succeeded("esp_event_handler_instance_register",
                       <<IP_EVENT, IP_EVENT_STA_GOT_IP>>)
          /\ Succeeded("esp_wifi_set_mode", <<"WIFI_MODE_STA">>)
          /\ Succeeded("esp_wifi_set_config", <<"WIFI_IF_STA">>)
          /\ CallIndex("esp_wifi_start", <<>>) = Len(calls)
          /\ handlers = { <<WIFI_EVENT, ESP_EVENT_ANY_ID>>,
                          <<IP_EVENT, IP_EVENT_STA_GOT_IP>> }
    /\ radioStarted => Succeeded("esp_wifi_start", <<>>)
    /\ staStartPending =>
          (radioStarted /\ Registered(WIFI_EVENT, WIFI_EVENT_STA_START))
    /\ (radioStarted /\ ~staStartPending) => nStaStart = 1
    /\ ConnectAttempts > 0 => nStaStart = 1

\* the start event was handled, and the connection attempt made, while
\* wifi_init_sta had not yet returned
C13_Witness ==
    /\ wifiPc = "finish"
    /\ radioStarted
    /\ nStaStart = 1
    /\ ConnectAttempts = 1
    /\ trace = <<ConnectCall>>

\* the events the handler acts on
HandledEventIds ==
    {WIFI_EVENT_STA_START, WIFI_EVENT_STA_DISCONNECTED, IP_EVENT_STA_GOT_IP}

\* C14: the handler is registered for every radio event id, and a dispatched
\* radio event other than station-start and station-disconnected reaches it
\* and has no effect: no connection attempt, no log line, and no change to
\* anything of wifi_init_sta, app_main or the streaming task.  (The
\* platform's own lifecycle moves on a station-connected event.)
C14_OtherEventsIgnored ==
    /\ [](radioStarted =>
            \A id \in OtherWifiEvents \cup {WIFI_EVENT_STA_CONNECTED} :
                Registered(WIFI_EVENT, id))
    /\ [][(EventStep /\ lastEvent'[2] \notin HandledEventIds) =>
            /\ lastEvent'[1] = WIFI_EVENT
            /\ trace' = trace
            /\ UNCHANGED <<nStaStart, nDisc, nGotIp>>
            /\ UNCHANGED <<wifiPc, wifiRet, calls, handlers, wifi_config,
                           set_config_arg, radioMode, radioStarted, wifiLog>>
            /\ UNCHANGED <<mainPc, nvsCalls, mainLog, taskPc, streamLog>>]_vars

\* a station-connected event was dispatched after the first attempt and left
\* the handler's effects as they were
C14_Witness ==
    /\ nEvents = 2
    /\ lastEvent = <<WIFI_EVENT, WIFI_EVENT_STA_CONNECTED, <<>>>>
    /\ trace = <<ConnectCall>>
    /\ conn = "ConnectedNoIp"

\* the first-attempt statuses that make app_main erase the storage
NvsNeedsErase(r) ==
    r = ESP_ERR_NVS_NO_FREE_PAGES \/ r = ESP_ERR_NVS_NEW_VERSION_FOUND

\* the last NVS call was an initialisation that succeeded
NvsReady ==
    /\ nvsCalls # <<>>
    /\ Last(nvsCalls) = [fn |-> "nvs_flash_init", ret |-> ESP_OK]

\* Wi-Fi bring-up has been entered
WifiInitEntered ==
    \/ mainPc \in {"wifi_init_sta", "xTaskCreate", "returned"}
    \/ calls # <<>>
    \/ wifiPc # "esp_netif_init"
    \/ mainLog # <<>>

HaltedBeforeWifi == mainPc = "aborted" /\ calls = <<>> /\ mainLog = <<>>

\* C15: Wi-Fi bring-up is entered only after NVS initialisation succeeded.
\* The NVS calls are one nvs_flash_init, followed, only when it reported no
\* free pages or a new version, by one nvs_flash_erase and, only when the
\* erase succeeded, by one more nvs_flash_init.  A first attempt failing
\* otherwise, a failed erase and a failed retry each halt app_main before
\* any Wi-Fi sub-step.
C15_NvsBeforeWifi ==
    /\ WifiInitEntered => NvsReady
    /\ Len(nvsCalls) <= 3
    /\ Len(nvsCalls) >= 1 => nvsCalls[1].fn = "nvs_flash_init"
    /\ Len(nvsCalls) >= 2 =>
          /\ NvsNeedsErase(nvsCalls[1].ret)
          /\ nvsCalls[2].fn = "nvs_flash_erase"
    /\ Len(nvsCalls) = 3 =>
          /\ nvsCalls[2].ret = ESP_OK
          /\ nvsCalls[3].fn = "nvs_flash_init"
    /\ (Len(nvsCalls) = 1 /\ NvsNeedsErase(nvsCalls[1].ret)) =>
          mainPc = "nvs_flash_erase"
    /\ (Len(nvsCalls) = 1 /\ ~NvsNeedsErase(nvsCalls[1].ret)
                          /\ nvsCalls[1].ret # ESP_OK) => HaltedBeforeWifi
    /\ (Len(nvsCalls) = 2 /\ nvsCalls[2].ret # ESP_OK) => HaltedBeforeWifi
    /\ (Len(nvsCalls) = 2 /\ nvsCalls[2].ret = ESP_OK) =>
          mainPc = "nvs_flash_init_retry"
    /\ (Len(nvsCalls) = 3 /\ nvsCalls[3].ret # ESP_OK) => HaltedBeforeWifi

\* storage was erased, the retry succeeded and Wi-Fi bring-up is under way
C15_Witness ==
    /\ Len(nvsCalls) = 3
    /\ nvsCalls[1].ret = ESP_ERR_NVS_NEW_VERSION_FOUND
    /\ nvsCalls[3].ret = ESP_OK
    /\ Len(calls) >= 1

TaskErrorLine == LogLine("E", "main", "Failed to create audio_stream_task", <<>>)

TaskStartingLine == LogLine("I", "main", "Starting audio stream task...", <<>>)

InLog(line, log) == \E i \in 1..Len(log) : log[i] = line

\* app_main returned without a streaming task
TaskCreationFailed == mainPc = "returned" /\ taskPc = "none"

\* C16: when xTaskCreate fails, app_main logs an error and returns; nothing
\* is aborted, no streaming line is ever produced, and the event handler
\* still answers a disconnect with a warning and a connection attempt.  The
\* error line is logged only in that case, an abort happens only before the
\* task creation is reached, and app_main leaves the task creation by
\* returning and never comes back to it.
C16_TaskFailureNotFatal ==
    /\ [](TaskCreationFailed =>
            /\ Last(mainLog) = TaskErrorLine
            /\ streamLog = <<>>
            /\ Alive)
    /\ []((mainPc = "returned" /\ taskPc # "none") => ~InLog(TaskErrorLine, mainLog))
    /\ [](mainPc = "aborted" => ~InLog(TaskStartingLine, mainLog))
    /\ []((/\ TaskCreationFailed
           /\ conn \in {"Connecting", "ConnectedNoIp", "ConnectedWithIp"}
           /\ nEvents < MaxEvents) =>
            ENABLED (DeliverStaDisconnected
                        /\ trace' = trace \o <<WarnLine, ConnectCall>>))
    /\ [][(mainPc = "xTaskCreate" /\ mainPc' # mainPc) => mainPc' = "returned"]_vars
    /\ [][mainPc = "returned" =>
            (mainPc' = "returned" /\ (taskPc = "none" => taskPc' = "none"))]_vars

\* no task was created, and the handler has retried after a disconnect
C16_Witness ==
    /\ TaskCreationFailed
    /\ Last(mainLog) = TaskErrorLine
    /\ nDisc >= 1
    /\ lastEvent[2] = WIFI_EVENT_STA_DISCONNECTED
    /\ Last(trace) = ConnectCall
    /\ conn = "Connecting"

====
